---- MODULE Spec2Model ----
(***************************************************************************)
(* Primary_Battery_Runtime: the Battery class of battery_runtime_app.py    *)
(* (chemistry-generalized variant, "gen") and of                           *)
(* lithium_battery_runtime_app.py (lithium-only variant, "li").            *)
(*                                                                         *)
(* Python numbers are modelled as exact rationals n/d tagged with their    *)
(* Python type (int or float); float rounding error is not modelled.       *)
(* A Python exception leaving a method is modelled as the method's outcome *)
(* with the fields assigned before the raise kept and the others           *)
(* untouched.                                                              *)
(***************************************************************************)
EXTENDS Integers, Sequences, FiniteSets, TLC

\* ------------------------------------------------------------------------
\* Python values
\* ------------------------------------------------------------------------

RECURSIVE Gcd(_, _)
Gcd(a, b) == IF b = 0 THEN a ELSE Gcd(b, a % b)

Abs(x) == IF x < 0 THEN -x ELSE x

\* A value: k is the Python type ("np" is numpy.float64, the type of a
\* number read from a sheet); n/d the number (d > 0, lowest terms); s the
\* text of a str.
Val(k, n, d, s) == [k |-> k, n |-> n, d |-> d, s |-> s]

Norm(k, n, d) ==
    LET g == Gcd(Abs(n), Abs(d))
        sg == IF d < 0 THEN -1 ELSE 1
    IN  Val(k, sg * (n \div g), sg * (d \div g), "")

PyInt(n) == Val("int", n, 1, "")
PyFloat(n, d) == Norm("float", n, d)
PyStr(s) == Val("str", 0, 1, s)
PyNone == Val("none", 0, 1, "")
\* an attribute that was never assigned (reading it raises AttributeError)
Unset == Val("unset", 0, 1, "")

PyNp(n, d) == Norm("np", n, d)
\* numpy's nan, the result of numpy.float64(0) / numpy.float64(0)
PyNaN == Val("nan", 0, 1, "")

\* isinstance(v, int) or isinstance(v, float)
IsNumeric(v) == v.k \in {"int", "float", "np"}

\* the type of the result of a binary + - * on two numbers
Kind2(a, b) ==
    IF a.k = "np" \/ b.k = "np" THEN "np"
    ELSE IF a.k = "int" /\ b.k = "int" THEN "int" ELSE "float"

Lcm(a, b) == (a \div Gcd(a, b)) * b

PyAdd(a, b) ==
    LET l == Lcm(a.d, b.d)
    IN  Norm(Kind2(a, b), a.n * (l \div a.d) + b.n * (l \div b.d), l)

PyNeg(a) == Val(a.k, -a.n, a.d, "")

PySub(a, b) == PyAdd(a, PyNeg(b))

PyMul(a, b) ==
    LET g1 == Gcd(Abs(a.n), Abs(b.d))
        g2 == Gcd(Abs(b.n), Abs(a.d))
    IN  Norm(Kind2(a, b), (a.n \div g1) * (b.n \div g2), (a.d \div g2) * (b.d \div g1))

\* true division a / b, b nonzero (the caller raises ZeroDivisionError otherwise)
PyDiv(a, b) ==
    LET r == PyMul(Val("float", a.n, a.d, ""), Val("float", b.d, b.n, ""))
    IN  Norm(IF Kind2(a, b) = "np" THEN "np" ELSE "float", r.n, r.d)

\* an/ad < bn/bd (ad, bd > 0), by integer parts and then the reciprocals of
\* the fractional parts, so that no product is formed
RECURSIVE RatLt(_, _, _, _)
RatLt(an, ad, bn, bd) ==
    LET qa == an \div ad
        qb == bn \div bd
        ra == an % ad
        rb == bn % bd
    IN  IF qa # qb THEN qa < qb
        ELSE IF rb = 0 THEN FALSE
        ELSE IF ra = 0 THEN TRUE
        ELSE RatLt(bd, rb, ad, ra)

PyLt(a, b) == RatLt(a.n, a.d, b.n, b.d)
PyLe(a, b) == ~RatLt(b.n, b.d, a.n, a.d)
\* Python == on numbers compares the numbers, not the types (0 == 0.0)
PyEq(a, b) == a.n = b.n /\ a.d = b.d

Pow10(e) == IF e = 0 THEN 1 ELSE IF e = 1 THEN 10 ELSE IF e = 2 THEN 100 ELSE 1000

\* the first e decimal digits of r/d (0 <= r < d) as an integer, with the
\* remainder left over
RECURSIVE Digits(_, _, _, _)
Digits(r, d, e, acc) ==
    IF e = 0 THEN <<acc, r>>
    ELSE Digits((r * 10) % d, d, e - 1, acc * 10 + ((r * 10) \div d))

\* round(a, e): to e decimals, halves to the even neighbour; keeps the type
PyRound(a, e) ==
    LET q == a.n \div a.d
        r == a.n % a.d
        dr == Digits(r, a.d, e, 0)
        f == dr[1]
        rem == dr[2]
        up == \/ 2 * rem > a.d
              \/ 2 * rem = a.d /\ (q * Pow10(e) + f) % 2 = 1
        m == q * Pow10(e) + f + (IF up THEN 1 ELSE 0)
    IN  IF a.k = "int" THEN a ELSE Norm(a.k, m, Pow10(e))

\* ------------------------------------------------------------------------
\* The reference sheets ("Battery Parameters Data caa 2025110x.xlsx")
\* ------------------------------------------------------------------------

\* a row of a sheet: discharge current limit c (mA), temperature t, factor f
Row(c, t, fn, fd) == [c |-> PyNp(c, 1), t |-> PyNp(t, 1), f |-> PyNp(fn, fd)]

\* A workbook whose curves span each chemistry's operating range, first row
\* at the maximum, with the factor never larger at a larger discharge current.
\* "Lithium" is the sheet "Temperature Factor" of the lithium-only workbook
\* (its column c is not read).
SpanningBook ==
    [ Li |-> << Row(25, 60, 1, 1), Row(25, 20, 1, 1), Row(25, -20, 9, 10), Row(25, -40, 7, 10),
                Row(250, 60, 1, 1), Row(250, 20, 1, 1), Row(250, -20, 4, 5), Row(250, -40, 1, 2),
                Row(1000, 60, 1, 1), Row(1000, 20, 9, 10), Row(1000, -20, 3, 5), Row(1000, -40, 3, 10) >>,
      Alkaline |-> << Row(25, 55, 1, 1), Row(25, 20, 1, 1), Row(25, -18, 2, 5),
                      Row(250, 55, 1, 1), Row(250, 20, 9, 10), Row(250, -18, 1, 5),
                      Row(1000, 55, 9, 10), Row(1000, 20, 3, 5), Row(1000, -18, 0, 1) >>,
      Lithium |-> << Row(0, 60, 1, 1), Row(0, -10, 1, 1), Row(0, -20, 9, 10), Row(0, -40, 3, 5) >> ]

\* A workbook with the shapes section 4.2 (step 6) allows for: curves that
\* stop short of the range's ends (the 25 mA lithium curve ends at -20, the
\* 1000 mA lithium curve starts at 40, the 1000 mA alkaline curve ends at 0,
\* the lithium-only sheet holds only the samples -10..-30 the code reads), and
\* low-current curves that peak at 20 degrees and fall off towards the
\* maximum, where the 250 mA curves peak.
PartialBook ==
    [ Li |-> << Row(25, 60, 19, 20), Row(25, 20, 1, 1), Row(25, -20, 9, 10),
                Row(250, 60, 1, 1), Row(250, 20, 1, 1), Row(250, -20, 4, 5), Row(250, -40, 1, 2),
                Row(1000, 40, 1, 1), Row(1000, 20, 9, 10), Row(1000, -20, 3, 5), Row(1000, -40, 3, 10) >>,
      Alkaline |-> << Row(25, 55, 9, 10), Row(25, 20, 1, 1), Row(25, -18, 2, 5),
                      Row(250, 55, 1, 1), Row(250, 20, 9, 10), Row(250, -18, 1, 5),
                      Row(1000, 55, 9, 10), Row(1000, 20, 3, 5), Row(1000, 0, 1, 5) >>,
      Lithium |-> << Row(0, -10, 1, 1), Row(0, -20, 9, 10), Row(0, -30, 3, 4) >> ]

\* the workbooks, by name
Books == {[name |-> "spanning"], [name |-> "partial"]}

\* a curve's rows for one discharge current limit
CurveRows(c, curve) == [i \in 1..Len(curve) |-> [c |-> PyNp(c, 1), t |-> curve[i].t, f |-> curve[i].f]]

\* A workbook around one curve: the curve is the 25 mA lithium curve of the
\* generalized workbook and the sheet of the lithium-only one; the other
\* curves are the spanning workbook's.
CurveBook(curve) ==
    [ Li |-> CurveRows(25, curve) \o SubSeq(SpanningBook.Li, 5, 12),
      Alkaline |-> SpanningBook.Alkaline,
      Lithium |-> CurveRows(0, curve) ]

\* a workbook is given by its name, and by its curve when built around one
Sheets(book) ==
    IF book.name = "spanning" THEN SpanningBook
    ELSE IF book.name = "partial" THEN PartialBook
    ELSE CurveBook(book.curve)

\* ------------------------------------------------------------------------
\* class Battery
\* ------------------------------------------------------------------------

Variants == {"gen", "li"}

\* the object before __init__ has assigned anything
Blank ==
    [ battery_type |-> Unset, battery_capacity |-> Unset, operating_temp |-> Unset,
      load_current |-> Unset, load_duration_per_day |-> Unset, sleep_current |-> Unset,
      sleep_duration_per_day |-> Unset, average_current_draw |-> Unset,
      self_discharge_rate |-> Unset, max_shelf_life |-> Unset,
      min_operating_temp |-> Unset, max_operating_temp |-> Unset,
      temperature_factor |-> Unset, effective_battery_capacity |-> Unset,
      battery_runtime |-> Unset, current_discharge_mode |-> Unset,
      low_current_discharge |-> Unset, medium_current_discharge |-> Unset,
      high_current_discharge |-> Unset ]

\* the outcome of a method: the object afterwards, the exception that left it
\* ("" when it returned) and the value returned
Returned(b, v) == [obj |-> b, exc |-> "", ret |-> v]
Raised(b, e) == [obj |-> b, exc |-> e, ret |-> PyNone]

\* the property setters
set_battery_type(b, value) ==
    IF value \in {PyStr("Lithium Metal"), PyStr("Alkaline")}
    THEN [b EXCEPT !.battery_type = value] ELSE b

\* the capacity's type checked, its sign not
set_battery_capacity_AnyInt(variant, b, value) ==
    IF value.k = "int" THEN [b EXCEPT !.battery_capacity = value] ELSE b

set_battery_capacity(variant, b, value) ==
    IF value.k = "int" /\ (IF variant = "gen" THEN value.n >= 0 ELSE value.n > 0)
    THEN [b EXCEPT !.battery_capacity = value] ELSE b

set_operating_temp(b, value) ==
    IF IsNumeric(value) THEN [b EXCEPT !.operating_temp = value] ELSE b

set_load_current(b, value) ==
    IF IsNumeric(value) /\ value.n >= 0 THEN [b EXCEPT !.load_current = value] ELSE b

set_load_duration_per_day(b, value) ==
    IF IsNumeric(value) /\ value.n >= 0 /\ PyLe(value, PyInt(86400))
    THEN [b EXCEPT !.load_duration_per_day = value] ELSE b

set_sleep_current(b, value) ==
    IF IsNumeric(value) /\ value.n >= 0 THEN [b EXCEPT !.sleep_current = value] ELSE b

\* __init__: the six (five) assignments through the setters, then the defaults
\* of the derived attributes
Battery(variant, a) ==
    LET b1 == IF variant = "gen" THEN set_battery_type(Blank, a.battery_type) ELSE Blank
        b2 == set_battery_capacity(variant, b1, a.battery_capacity)
        b3 == set_operating_temp(b2, a.operating_temp)
        b4 == set_load_current(b3, a.load_current)
        b5 == set_load_duration_per_day(b4, a.load_duration_per_day)
        b6 == set_sleep_current(b5, a.sleep_current)
        b7 == [b6 EXCEPT !.sleep_duration_per_day = PyNone,
                         !.self_discharge_rate = PyFloat(1, 100),
                         !.max_shelf_life = PyInt(25),
                         !.min_operating_temp = PyInt(-40),
                         !.max_operating_temp = PyInt(60),
                         !.temperature_factor = PyNone,
                         !.effective_battery_capacity = PyNone,
                         !.battery_runtime = PyNone]
    IN  IF variant = "li" THEN b7
        ELSE [b7 EXCEPT !.average_current_draw = PyInt(0),
                        !.current_discharge_mode = PyNone,
                        !.low_current_discharge = PyInt(25),
                        !.medium_current_discharge = PyInt(250),
                        !.high_current_discharge = PyInt(1000)]

\* the attributes battery_details() reads, per variant
InputFields(variant) ==
    (IF variant = "gen" THEN {"battery_type"} ELSE {}) \cup
    {"battery_capacity", "operating_temp", "load_current", "load_duration_per_day",
     "sleep_current"}

DerivedFields(variant) ==
    (IF variant = "gen"
     THEN {"average_current_draw", "current_discharge_mode", "low_current_discharge",
           "medium_current_discharge", "high_current_discharge"}
     ELSE {}) \cup
    {"sleep_duration_per_day", "self_discharge_rate", "max_shelf_life",
     "min_operating_temp", "max_operating_temp", "temperature_factor",
     "effective_battery_capacity", "battery_runtime"}

\* battery_details(): the mapping of every property, or AttributeError at the
\* first property never assigned
battery_details(variant, b) ==
    IF \E f \in InputFields(variant) : b[f] = Unset
    THEN Raised(b, "AttributeError")
    ELSE Returned(b, [f \in InputFields(variant) \cup DerivedFields(variant) |-> b[f]])

\* the loop ending without a return taken as a factor of 0
RECURSIVE Interpolate_ZeroOnGap(_, _, _)
Interpolate_ZeroOnGap(df, row, operating_temp) ==
    IF row > Len(df) - 1 THEN PyFloat(0, 1)
    ELSE IF PyLt(operating_temp, df[row].t) /\ PyLe(df[row + 1].t, operating_temp)
         THEN LET x1 == df[row + 1].t
                  y1 == df[row + 1].f
                  x2 == df[row].t
                  y2 == df[row].f
              IN  PyAdd(y1, PyMul(PyDiv(PySub(y2, y1), PySub(x2, x1)),
                                  PySub(operating_temp, x1)))
         ELSE Interpolate_ZeroOnGap(df, row + 1, operating_temp)

\* the interpolation anchored at the pair's upper sample: y2 in place of y1
RECURSIVE Interpolate_AnchoredAbove(_, _, _)
Interpolate_AnchoredAbove(df, row, operating_temp) ==
    IF row > Len(df) - 1 THEN PyNone
    ELSE IF PyLt(operating_temp, df[row].t) /\ PyLe(df[row + 1].t, operating_temp)
         THEN LET x1 == df[row + 1].t
                  y1 == df[row + 1].f
                  x2 == df[row].t
                  y2 == df[row].f
              IN  PyAdd(y2, PyMul(PyDiv(PySub(y2, y1), PySub(x2, x1)),
                                  PySub(operating_temp, x1)))
         ELSE Interpolate_AnchoredAbove(df, row + 1, operating_temp)

\* the linear interpolation of lines 245-249 (183-187): the first adjacent
\* pair of df with df[row+1].t <= operating_temp < df[row].t, or None when the
\* loop ends without a return
RECURSIVE Interpolate(_, _, _)
Interpolate(df, row, operating_temp) ==
    IF row > Len(df) - 1 THEN PyNone
    ELSE IF PyLt(operating_temp, df[row].t) /\ PyLe(df[row + 1].t, operating_temp)
         THEN LET x1 == df[row + 1].t
                  y1 == df[row + 1].f
                  x2 == df[row].t
                  y2 == df[row].f
              IN  PyAdd(y1, PyMul(PyDiv(PySub(y2, y1), PySub(x2, x1)),
                                  PySub(operating_temp, x1)))
         ELSE Interpolate(df, row + 1, operating_temp)

AnyUnset(b, fields) == \E f \in fields : b[f] = Unset

OutOfRange(b) ==
    \/ PyLt(b.operating_temp, b.min_operating_temp)
    \/ PyLt(b.max_operating_temp, b.operating_temp)

\* the rows of the sheet selected by the discharge mode's current limit
\* (line 239)
FilteredCurve(b, book) ==
    LET sheet == IF b.battery_type = PyStr("Alkaline")
                 THEN Sheets(book).Alkaline ELSE Sheets(book).Li
        limits == [Low |-> b.low_current_discharge, Medium |-> b.medium_current_discharge,
                   High |-> b.high_current_discharge]
        limit == limits[b.current_discharge_mode.s]
    IN  SelectSeq(sheet, LAMBDA r : PyEq(r.c, limit))

\* lines 241-249 skipped: the curve interpolated without the edge case
CurveValue_NoEdgeCase(b, df) ==
    Returned(b, Interpolate(df, 1, b.operating_temp))

\* lines 241-249: the first row at the maximum temperature, the
\* interpolation below it
CurveValue(b, df) ==
    IF PyEq(b.operating_temp, b.max_operating_temp)
    THEN IF Len(df) = 0 THEN Raised(b, "KeyError") ELSE Returned(b, df[1].f)
    ELSE Returned(b, Interpolate(df, 1, b.operating_temp))

\* without the edge case of lines 241-242
calculate_temperature_factor_gen_NoEdgeCase(b, book) ==
    IF b.operating_temp = Unset THEN Raised(b, "AttributeError")
    ELSE IF OutOfRange(b) THEN Returned(b, PyFloat(0, 1))
    ELSE IF battery_details("gen", b).exc # "" THEN Raised(b, "AttributeError")
    ELSE CurveValue_NoEdgeCase(b, FilteredCurve(b, book))

\* Battery.calculate_temperature_factor, generalized variant
calculate_temperature_factor_gen(b, book) ==
    IF b.operating_temp = Unset THEN Raised(b, "AttributeError")
    ELSE IF OutOfRange(b) THEN Returned(b, PyFloat(0, 1))
    ELSE IF battery_details("gen", b).exc # "" THEN Raised(b, "AttributeError")
    ELSE CurveValue(b, FilteredCurve(b, book))

\* Battery.calculate_temperature_factor, lithium-only variant
calculate_temperature_factor_li(b, book) ==
    IF b.operating_temp = Unset THEN Raised(b, "AttributeError")
    ELSE IF OutOfRange(b) THEN Returned(b, PyFloat(0, 1))
    ELSE IF PyLe(PyInt(-10), b.operating_temp) THEN Returned(b, PyFloat(1, 1))
    ELSE Returned(b, Interpolate(Sheets(book).Lithium, 1, b.operating_temp))

\* the sleep contribution subtracted instead of added
total_daily_consumption_SleepSubtracted(b) ==
    LET daily_load_contribution ==
            PyMul(b.load_current, PyDiv(b.load_duration_per_day, PyInt(3600)))
        daily_sleep_contribution ==
            PyMul(b.sleep_current, PyDiv(b.sleep_duration_per_day, PyInt(3600)))
    IN  PyAdd(PySub(daily_load_contribution, daily_sleep_contribution),
              PyDiv(PyMul(b.self_discharge_rate, b.effective_battery_capacity), PyInt(365)))

\* lines 266-269 (203-206)
total_daily_consumption(b) ==
    LET daily_load_contribution ==
            PyMul(b.load_current, PyDiv(b.load_duration_per_day, PyInt(3600)))
        daily_sleep_contribution ==
            PyMul(b.sleep_current, PyDiv(b.sleep_duration_per_day, PyInt(3600)))
    IN  PyAdd(PyAdd(daily_load_contribution, daily_sleep_contribution),
              PyDiv(PyMul(b.self_discharge_rate, b.effective_battery_capacity), PyInt(365)))

\* line 271 (208), the division: a float division by zero raises, a numpy
\* one yields nan (0/0)
DividedBy(b, total) ==
    IF total.n # 0 THEN Returned(b, PyDiv(b.effective_battery_capacity, total))
    ELSE IF Kind2(b.effective_battery_capacity, total) = "np"
         THEN Returned(b, PyNaN)
         ELSE Raised(b, "ZeroDivisionError")

\* effective capacity / total daily consumption, in days
UnclampedRuntime(b) == DividedBy(b, total_daily_consumption(b))

\* the runtime in days compared with the shelf life in years
ShelfLifeClamp_DaysAsYears(b, battery_runtime) ==
    IF battery_runtime = PyNaN THEN battery_runtime
    ELSE IF PyLe(b.max_shelf_life, battery_runtime)
         THEN PyMul(b.max_shelf_life, PyInt(365))
         ELSE battery_runtime

\* lines 273-274 (210-211); nan >= x is false
ShelfLifeClamp(b, battery_runtime) ==
    IF battery_runtime = PyNaN THEN battery_runtime
    ELSE IF PyLe(b.max_shelf_life, PyDiv(battery_runtime, PyInt(365)))
         THEN PyMul(b.max_shelf_life, PyInt(365))
         ELSE battery_runtime

RuntimeInputs ==
    {"load_current", "load_duration_per_day", "sleep_current", "sleep_duration_per_day"}

\* lines 273-276: the clamp, then round(battery_runtime, 2)
ClampedRounded(b, u) ==
    IF u.exc # "" THEN u
    ELSE IF u.ret = PyNaN THEN u
    ELSE Returned(b, PyRound(ShelfLifeClamp(b, u.ret), 2))

\* lines 210-213 of the lithium-only variant: the clamp, no rounding
Clamped(b, u) ==
    IF u.exc # "" THEN u ELSE Returned(b, ShelfLifeClamp(b, u.ret))

\* without the guard of lines 263-264
calculate_runtime_gen_NoZeroGuard(b) ==
    IF AnyUnset(b, RuntimeInputs) THEN Raised(b, "AttributeError")
    ELSE ClampedRounded(b, UnclampedRuntime(b))

\* Battery.calculate_runtime, generalized variant
calculate_runtime_gen(b) ==
    IF b.effective_battery_capacity.n = 0 THEN Returned(b, PyInt(0))
    ELSE IF AnyUnset(b, RuntimeInputs) THEN Raised(b, "AttributeError")
    ELSE ClampedRounded(b, UnclampedRuntime(b))

\* Battery.calculate_runtime, lithium-only variant
calculate_runtime_li(b) ==
    IF AnyUnset(b, RuntimeInputs) THEN Raised(b, "AttributeError")
    ELSE Clamped(b, UnclampedRuntime(b))

\* the mode taken from the load current instead of the average draw
update_current_discharge_mode_ByLoadCurrent(b) ==
    IF PyLe(b.load_current, b.low_current_discharge) THEN PyStr("Low")
    ELSE IF PyLe(b.load_current, b.medium_current_discharge) THEN PyStr("Medium")
    ELSE PyStr("High")

\* Battery.update_current_discharge_mode
update_current_discharge_mode(b) ==
    IF PyLe(b.average_current_draw, b.low_current_discharge) THEN PyStr("Low")
    ELSE IF PyLe(b.average_current_draw, b.medium_current_discharge) THEN PyStr("Medium")
    ELSE PyStr("High")

\* the average added to the attribute's value (+=) instead of replacing it
AverageCurrentDraw_Accumulated(b) ==
    PyRound(PyAdd(b.average_current_draw,
                  PyAdd(PyDiv(PyMul(b.load_current, b.load_duration_per_day), PyInt(86400)),
                        PyDiv(PyMul(b.sleep_current, b.sleep_duration_per_day),
                              PyInt(86400)))),
            3)

\* line 320
AverageCurrentDraw(b) ==
    PyRound(PyAdd(PyDiv(PyMul(b.load_current, b.load_duration_per_day), PyInt(86400)),
                  PyDiv(PyMul(b.sleep_current, b.sleep_duration_per_day), PyInt(86400))),
            3)

\* line 324 (231): battery_runtime assigned unless calculate_runtime raised;
\* line 325: return 0
AssignRuntime(b, rt) ==
    IF rt.exc # "" THEN Raised(b, rt.exc)
    ELSE Returned([b EXCEPT !.battery_runtime = rt.ret], PyInt(0))

\* line 324 (231)
UpdateRuntime(variant, b) ==
    AssignRuntime(b, IF variant = "gen" THEN calculate_runtime_gen(b)
                     ELSE calculate_runtime_li(b))

\* line 323 (230): temperature_factor * battery_capacity; None * int raises
UpdateEffectiveCapacity(variant, b) ==
    IF b.battery_capacity = Unset THEN Raised(b, "AttributeError")
    ELSE IF b.temperature_factor = PyNone THEN Raised(b, "TypeError")
    ELSE UpdateRuntime(variant,
             [b EXCEPT !.effective_battery_capacity =
                           PyMul(b.temperature_factor, b.battery_capacity)])

\* line 322 (229): temperature_factor assigned unless the calculation raised
AssignTemperatureFactor(variant, b, tf) ==
    IF tf.exc # "" THEN Raised(b, tf.exc)
    ELSE UpdateEffectiveCapacity(variant, [b EXCEPT !.temperature_factor = tf.ret])

\* lines 322-325 (229-232): the temperature factor, the effective capacity
\* and the runtime, each assigned only if the steps before it did not raise
UpdateTail(variant, b, book) ==
    AssignTemperatureFactor(variant, b,
        IF variant = "gen" THEN calculate_temperature_factor_gen(b, book)
        ELSE calculate_temperature_factor_li(b, book))

\* a day taken as 84600 seconds
SleepDurationPerDay_Transposed(b) == PySub(PyInt(84600), b.load_duration_per_day)

\* line 319 (228)
SleepDurationPerDay(b) == PySub(PyInt(86400), b.load_duration_per_day)

\* line 321
UpdateMode(b, book) ==
    UpdateTail("gen", [b EXCEPT !.current_discharge_mode = update_current_discharge_mode(b)],
               book)

\* line 320
UpdateAverage(b, book) ==
    IF AnyUnset(b, {"load_current", "sleep_current"}) THEN Raised(b, "AttributeError")
    ELSE UpdateMode([b EXCEPT !.average_current_draw = AverageCurrentDraw(b)], book)

\* line 319
UpdateSleep(b, book) ==
    IF b.load_duration_per_day = Unset THEN Raised(b, "AttributeError")
    ELSE UpdateAverage([b EXCEPT !.sleep_duration_per_day = SleepDurationPerDay(b)], book)

\* lines 310-312
LithiumConstants(b) ==
    [b EXCEPT !.min_operating_temp = PyInt(-40),
              !.max_operating_temp = PyInt(60),
              !.max_shelf_life = PyInt(25)]

\* lines 314-317
ChemistryConstants(b) ==
    IF b.battery_type = PyStr("Alkaline")
    THEN [b EXCEPT !.min_operating_temp = PyInt(-18),
                   !.max_operating_temp = PyInt(55),
                   !.max_shelf_life = PyInt(10)]
    ELSE b

\* Battery.update_battery_properties, generalized variant
update_battery_properties_gen(b, book) ==
    IF b.battery_type = Unset THEN Raised(LithiumConstants(b), "AttributeError")
    ELSE UpdateSleep(ChemistryConstants(LithiumConstants(b)), book)

\* Battery.update_battery_properties, lithium-only variant
update_battery_properties_li(b, book) ==
    IF b.load_duration_per_day = Unset THEN Raised(b, "AttributeError")
    ELSE UpdateTail("li", [b EXCEPT !.sleep_duration_per_day = SleepDurationPerDay(b)], book)

update_battery_properties(variant, b, book) ==
    IF variant = "gen" THEN update_battery_properties_gen(b, book)
    ELSE update_battery_properties_li(b, book)

\* ------------------------------------------------------------------------
\* The state machine: one Battery, its workbook, and the calls made on it
\* ------------------------------------------------------------------------

\* the values a caller passes; the last ones of each set are rejected
TypeArgs == {PyStr("Lithium Metal"), PyStr("Alkaline"), PyStr("NiMH")}
CapacityArgs == {PyInt(0), PyInt(16000), PyInt(-1), PyFloat(16000, 1)}
TempArgs == {PyInt(-41), PyInt(-35), PyInt(20), PyInt(55), PyInt(60), PyInt(61), PyNone}
CurrentArgs == {PyInt(0), PyInt(25), PyInt(26), PyInt(1500), PyInt(-1)}
DurationArgs == {PyInt(2000), PyInt(86400), PyInt(86401)}
SleepArgs == {PyInt(0), PyFloat(6, 100), PyFloat(-1, 2)}

\* at most this many arguments of the constructor are invalid
MaxInvalidArgs == 1
\* at most this many assignments are made after construction
MaxSets == 1

CtorArgs(v) ==
    [ battery_type : IF v = "gen" THEN TypeArgs ELSE {PyNone},
      battery_capacity : CapacityArgs, operating_temp : TempArgs,
      load_current : CurrentArgs, load_duration_per_day : DurationArgs,
      sleep_current : SleepArgs ]

Rejected(v, a) == {f \in InputFields(v) : Battery(v, a)[f] = Unset}

VARIABLES
    variant,   \* which of the two source files the Battery class is from
    book,      \* the workbook the class reads its curves from (see Sheets)
    self,      \* the Battery object's attributes
    last,      \* the last call made: op, arg, exc (the exception raised), ret
    nsets      \* the number of assignments made since construction

vars == <<variant, book, self, last, nsets>>

Call(op, arg, exc, ret) == [op |-> op, arg |-> arg, exc |-> exc, ret |-> ret]

Init ==
    /\ variant \in Variants
    /\ book \in Books
    /\ \E a \in CtorArgs(variant) :
          /\ Cardinality(Rejected(variant, a)) <= MaxInvalidArgs
          /\ self = Battery(variant, a)
          /\ last = Call("__init__", a, "", PyNone)
    /\ nsets = 0

Assign(field, value, b) ==
    /\ nsets < MaxSets
    /\ self' = b
    /\ last' = Call(field, value, "", PyNone)
    /\ nsets' = nsets + 1
    /\ UNCHANGED <<variant, book>>

SetBatteryType ==
    /\ variant = "gen"
    /\ \E value \in TypeArgs : Assign("battery_type", value, set_battery_type(self, value))

SetBatteryCapacity ==
    \E value \in CapacityArgs :
        Assign("battery_capacity", value, set_battery_capacity(variant, self, value))

SetOperatingTemp ==
    \E value \in TempArgs : Assign("operating_temp", value, set_operating_temp(self, value))

SetLoadCurrent ==
    \E value \in CurrentArgs : Assign("load_current", value, set_load_current(self, value))

SetLoadDurationPerDay ==
    \E value \in DurationArgs :
        Assign("load_duration_per_day", value, set_load_duration_per_day(self, value))

SetSleepCurrent ==
    \E value \in SleepArgs : Assign("sleep_current", value, set_sleep_current(self, value))

UpdateBatteryProperties ==
    LET r == update_battery_properties(variant, self, book)
    IN  /\ self' = r.obj
        /\ last' = Call("update_battery_properties", PyNone, r.exc, r.ret)
        /\ UNCHANGED <<variant, book, nsets>>

BatteryDetails ==
    LET r == battery_details(variant, self)
    IN  /\ last' = Call("battery_details", PyNone, r.exc, r.ret)
        /\ UNCHANGED <<variant, book, self, nsets>>

Next ==
    \/ SetBatteryType
    \/ SetBatteryCapacity
    \/ SetOperatingTemp
    \/ SetLoadCurrent
    \/ SetLoadDurationPerDay
    \/ SetSleepCurrent
    \/ UpdateBatteryProperties
    \/ BatteryDetails

Spec == Init /\ [][Next]_vars

\* ------------------------------------------------------------------------
\* The temperature factor over arbitrary curves: a Battery with fixed valid
\* inputs (25 mA all day: discharge mode "Low"), any operating
\* temperature, and a workbook built around any curve of at most MaxCurveLen
\* samples
\* ------------------------------------------------------------------------

MaxCurveLen == 3

SampleTemps == {60, 20, -10, -20, -40}
SampleFactors == {PyNp(0, 1), PyNp(1, 2), PyNp(1, 1)}
Sample(t, f) == [t |-> PyNp(t, 1), f |-> f]

\* the temperatures of s, warmest first
RECURSIVE Descending(_)
Descending(s) ==
    IF s = {} THEN <<>>
    ELSE LET m == CHOOSE x \in s : \A y \in s : y <= x
         IN  <<m>> \o Descending(s \ {m})

\* every curve over SampleTemps, sorted by descending temperature
Curves ==
    UNION { LET ts == Descending(s)
            IN  { [i \in 1..Len(ts) |-> Sample(ts[i], fs[i])] :
                    fs \in [1..Len(ts) -> SampleFactors] } :
            s \in {x \in SUBSET SampleTemps : Cardinality(x) \in 2..MaxCurveLen} }

CurveTempArgs ==
    {PyInt(-40), PyInt(-30), PyFloat(-25, 2), PyInt(-10), PyInt(0), PyInt(20), PyInt(40),
     PyInt(60)}

CurveInit ==
    /\ variant \in Variants
    /\ book \in [name : {"curve"}, curve : Curves]
    /\ \E t \in CurveTempArgs :
          LET a == [ battery_type |-> IF variant = "gen" THEN PyStr("Lithium Metal")
                                      ELSE PyNone,
                     battery_capacity |-> PyInt(16000), operating_temp |-> t,
                     load_current |-> PyInt(25), load_duration_per_day |-> PyInt(86400),
                     sleep_current |-> PyInt(0) ]
          IN  /\ self = Battery(variant, a)
              /\ last = Call("__init__", a, "", PyNone)
    /\ nsets = 0

CurveNext ==
    \/ SetOperatingTemp
    \/ UpdateBatteryProperties

CurveSpec == CurveInit /\ [][CurveNext]_vars

\* ------------------------------------------------------------------------
\* Properties
\* ------------------------------------------------------------------------

Updated == last.op = "update_battery_properties"
UpdatedOk == Updated /\ last.exc = ""
\* every input attribute holds a value (the setters keep invalid ones out)
ValidInputs == ~AnyUnset(self, InputFields(variant))
IsAlkaline == variant = "gen" /\ self.battery_type = PyStr("Alkaline")
IsZero(v) == IsNumeric(v) /\ v.n = 0

\* C1: with valid inputs and operating_temp below the chemistry's minimum or
\* above its maximum (Lithium Metal -40/60, Alkaline -18/55), after
\* update_battery_properties() temperature_factor is 0 and battery_runtime is
\* 0, in both variants, also with load_current = sleep_current = 0.
C1_OutOfRangeGivesZero ==
    LET lo == IF IsAlkaline THEN PyInt(-18) ELSE PyInt(-40)
        hi == IF IsAlkaline THEN PyInt(55) ELSE PyInt(60)
    IN  (Updated /\ ValidInputs
         /\ (PyLt(self.operating_temp, lo) \/ PyLt(hi, self.operating_temp)))
        => IsZero(self.temperature_factor) /\ IsZero(self.battery_runtime)

\* C3: for every Battery constructed with valid inputs, in either variant,
\* update_battery_properties() completes and returns 0.
C3_UpdateAlwaysReturnsZero ==
    (Updated /\ ValidInputs) => last.exc = "" /\ last.ret = PyInt(0)

\* C9: after update_battery_properties() has returned,
\* sleep_duration_per_day + load_duration_per_day = 86400 and
\* sleep_duration_per_day lies in [0, 86400].
C9_SleepPlusLoadIsADay ==
    UpdatedOk =>
        /\ PyEq(PyAdd(self.sleep_duration_per_day, self.load_duration_per_day), PyInt(86400))
        /\ PyLe(PyInt(0), self.sleep_duration_per_day)
        /\ PyLe(self.sleep_duration_per_day, PyInt(86400))

C9_Witness ==
    /\ UpdatedOk
    /\ self.load_duration_per_day = PyInt(2000)
    /\ self.sleep_duration_per_day = PyInt(84400)

\* C5 (shelf-life clamp): whenever calculate_runtime divides, and effective
\* capacity / total daily consumption, divided by 365, is >= max_shelf_life,
\* battery_runtime is exactly max_shelf_life * 365 (9125 for Lithium Metal,
\* 3650 for Alkaline); otherwise it is the unclamped value, rounded to 2
\* decimals in the generalized variant and unrounded in the lithium-only one.
C5_ShelfLifeClamp ==
    LET u == UnclampedRuntime(self)
        years == IF IsAlkaline THEN 10 ELSE 25
    IN  (UpdatedOk /\ total_daily_consumption(self).n # 0)
        => IF PyLe(PyInt(years), PyDiv(u.ret, PyInt(365)))
           THEN PyEq(self.battery_runtime, PyInt(years * 365))
           ELSE PyEq(self.battery_runtime,
                     IF variant = "gen" THEN PyRound(u.ret, 2) ELSE u.ret)

\* a lithium runtime that was clamped
C5_Witness ==
    /\ UpdatedOk
    /\ ~IsAlkaline
    /\ PyLt(PyInt(9125), UnclampedRuntime(self).ret)
    /\ self.battery_runtime = PyInt(9125)

\* the rows of the curve the temperature factor is read from
CurveRead == IF variant = "gen" THEN FilteredCurve(self, book) ELSE Sheets(book).Lithium
AtMaxTemp ==
    /\ Updated
    /\ ValidInputs
    /\ PyEq(self.operating_temp, IF IsAlkaline THEN PyInt(55) ELSE PyInt(60))

Scenario ==
    /\ variant = "gen"
    /\ Updated
    /\ self.battery_type = PyStr("Lithium Metal")
    /\ self.battery_capacity = PyInt(16000)
    /\ self.operating_temp = PyInt(-35)
    /\ self.load_current = PyInt(1500)
    /\ self.load_duration_per_day = PyInt(2000)
    /\ self.sleep_current = PyFloat(6, 100)

LiCurve(limit) == SelectSeq(Sheets(book).Li, LAMBDA r : PyEq(r.c, PyInt(limit)))

\* C7 as claimed: in the scenario the discharge mode is "High" because the
\* average current draw exceeds 250 mA, and the factor is interpolated on the
\* 1000 mA lithium curve.
C7_ScenarioIsHigh ==
    Scenario =>
        /\ PyLt(PyInt(250), self.average_current_draw)
        /\ self.current_discharge_mode = PyStr("High")
        /\ self.temperature_factor = Interpolate(LiCurve(1000), 1, PyInt(-35))

\* C7 as amended: in the scenario the average current draw is 34.781 mA
\* (1500 * 2000 / 86400 + 0.06 * 84400 / 86400), which is above 25 and not
\* above 250, so the discharge mode is "Medium" and the factor is interpolated
\* on the 250 mA lithium curve.
C7_ScenarioIsMedium ==
    Scenario =>
        /\ self.average_current_draw = PyFloat(34781, 1000)
        /\ self.current_discharge_mode = PyStr("Medium")
        /\ self.temperature_factor = Interpolate(LiCurve(250), 1, PyInt(-35))

C7_Witness == Scenario /\ last.exc = "" /\ IsNumeric(self.battery_runtime)

\* the derived attributes of an object
DerivedOf(b) == [f \in DerivedFields(variant) |-> b[f]]
\* the object with one input attribute replaced, updated
UpdatedWith(field, value) ==
    update_battery_properties(variant, [self EXCEPT ![field] = value], book)
LargerCurrents(field) ==
    {c \in (IF field = "load_current" THEN CurrentArgs ELSE SleepArgs) :
        c.n >= 0 /\ PyLt(self[field], c)}

ValidFor(field, v) ==
    CASE field = "battery_type" -> v \in {PyStr("Lithium Metal"), PyStr("Alkaline")}
      [] field = "battery_capacity" ->
             v.k = "int" /\ (IF variant = "gen" THEN v.n >= 0 ELSE v.n > 0)
      [] field = "operating_temp" -> v.k \in {"int", "float"}
      [] field \in {"load_current", "sleep_current"} -> v.k \in {"int", "float"} /\ v.n >= 0
      [] field = "load_duration_per_day" ->
             v.k \in {"int", "float"} /\ v.n >= 0 /\ v.n <= 86400 * v.d

\* C4: an assignment to an input attribute raises nothing; a valid value
\* replaces the attribute's value and an invalid one leaves it as it was, in
\* any sequence of assignments and in the constructor's (where the attribute
\* it leaves alone has never been assigned).
C4_SettersRejectSilently ==
    /\ last.op = "__init__" =>
           \A f \in InputFields(variant) :
               self[f] = IF ValidFor(f, last.arg[f]) THEN last.arg[f] ELSE Unset
    /\ [][\A f \in InputFields(variant) :
              last'.op = f =>
                  /\ last'.exc = ""
                  /\ self'[f] = IF ValidFor(f, last'.arg) THEN last'.arg ELSE self[f]
                  /\ \A g \in DOMAIN self \ {f} : self'[g] = self[g]]_vars

\* a capacity of -1 assigned to a battery of 16000 mAh, which keeps 16000
C4_Witness ==
    /\ last.op = "battery_capacity"
    /\ last.arg = PyInt(-1)
    /\ self.battery_capacity = PyInt(16000)

\* C8: with valid inputs, two successive battery_details() reads return the
\* same mapping, and update_battery_properties() called again with unchanged
\* inputs leaves every derived attribute as the first call left it.
C8_RoundTrip ==
    /\ [][(ValidInputs /\ last.op = "battery_details" /\ last'.op = "battery_details")
              => last'.exc = "" /\ last'.ret = last.ret]_vars
    /\ [][(ValidInputs /\ Updated /\ last'.op = "update_battery_properties")
              => DerivedOf(self') = DerivedOf(self) /\ last'.exc = last.exc]_vars

\* battery_details() read after an update that computed a runtime
C8_Witness ==
    /\ last.op = "battery_details"
    /\ last.exc = ""
    /\ IsNumeric(last.ret["battery_runtime"])
    /\ last.ret["battery_runtime"].n > 0

\* the arguments that construct an object with the input attributes of self
InputsOf(b) == [f \in InputFields("gen") |-> b[f]]

\* C10: after any sequence of assignments and updates on a Battery with
\* valid inputs, a final update_battery_properties() leaves every derived
\* attribute as one update leaves it on a Battery freshly constructed from the
\* same input values.
C10_HistoryIndependent ==
    (Updated /\ ValidInputs) =>
        DerivedOf(self) =
            DerivedOf(update_battery_properties(variant, Battery(variant, InputsOf(self)),
                                                book).obj)

\* the shape of a reference curve
StrictlyDescending(df) == \A i \in 1..(Len(df) - 1) : PyLt(df[i + 1].t, df[i].t)
InUnit(v) == IsNumeric(v) /\ PyLe(PyInt(0), v) /\ PyLe(v, PyInt(1))
FactorsInUnit(df) == \A i \in 1..Len(df) : InUnit(df[i].f)
Spans(df, b) ==
    /\ Len(df) > 0
    /\ PyLe(b.max_operating_temp, df[1].t)
    /\ PyLe(df[Len(df)].t, b.min_operating_temp)

\* the adjacent pairs (i, i+1) of df with df[i+1].t <= t < df[i].t
Bracket(df, t) == {i \in 1..(Len(df) - 1) : PyLe(df[i + 1].t, t) /\ PyLt(t, df[i].t)}
\* the rows of df sampled at t
AtSample(df, t) == {i \in 1..Len(df) : PyEq(df[i].t, t)}
\* y1 + ((y2 - y1)/(x2 - x1)) * (t - x1) over the pair (i, i+1)
Linear(df, i, t) ==
    PyAdd(df[i + 1].f,
          PyMul(PyDiv(PySub(df[i].f, df[i + 1].f), PySub(df[i].t, df[i + 1].t)),
                PySub(t, df[i + 1].t)))
Between(v, a, b) == (PyLe(a, v) /\ PyLe(v, b)) \/ (PyLe(b, v) /\ PyLe(v, a))

\* an update at an operating temperature within the range, on a curve that is
\* strictly descending, has its factors in [0,1] and spans the range
InRangeOnSpanningCurve ==
    /\ Updated
    /\ ValidInputs
    /\ ~OutOfRange(self)
    /\ StrictlyDescending(CurveRead)
    /\ FactorsInUnit(CurveRead)
    /\ Spans(CurveRead, self)

\* the factor is the interpolation over the one bracketing pair, between the
\* pair's factors, and the sample's factor at a sample's temperature
InterpolatedOn(df, t, factor) ==
    /\ Cardinality(Bracket(df, t)) = 1
    /\ \A i \in Bracket(df, t) :
          /\ PyEq(factor, Linear(df, i, t))
          /\ Between(factor, df[i + 1].f, df[i].f)
    /\ \A i \in AtSample(df, t) : PyEq(factor, df[i].f)

\* C11 as claimed: on such a curve calculate_temperature_factor returns, for
\* every operating_temp of the range and in both variants, the linear
\* interpolation over the unique adjacent pair with x1 <= operating_temp < x2,
\* a value between y1 and y2 and in [0,1], equal to the sample factor at a
\* sample temperature.
C11_InterpolatedInRange ==
    InRangeOnSpanningCurve =>
        /\ last.exc = ""
        /\ InUnit(self.temperature_factor)
        /\ InterpolatedOn(CurveRead, self.operating_temp, self.temperature_factor)

\* C11: on such a curve the temperature factor of an in-range operating_temp
\* is in [0,1]; it is 1 in the lithium-only variant at -10 degrees and above,
\* whatever the curve; it is the first row's factor in the generalized variant
\* at max_operating_temp, where no pair brackets; everywhere else it is the
\* linear interpolation over the unique adjacent pair with
\* x1 <= operating_temp < x2, between y1 and y2, and the sample factor at a
\* sample temperature (min_operating_temp included).
C11_InterpolatedWhereScanned ==
    InRangeOnSpanningCurve =>
        /\ last.exc = ""
        /\ InUnit(self.temperature_factor)
        /\ IF variant = "li" /\ PyLe(PyInt(-10), self.operating_temp)
           THEN self.temperature_factor = PyFloat(1, 1)
           ELSE IF variant = "gen" /\ PyEq(self.operating_temp, self.max_operating_temp)
           THEN /\ self.temperature_factor = CurveRead[1].f
                /\ Bracket(CurveRead, self.operating_temp) = {}
           ELSE InterpolatedOn(CurveRead, self.operating_temp, self.temperature_factor)

\* an interpolation strictly inside a pair whose factors differ
C11_Witness ==
    /\ InRangeOnSpanningCurve
    /\ last.exc = ""
    /\ AtSample(CurveRead, self.operating_temp) = {}
    /\ \E i \in Bracket(CurveRead, self.operating_temp) :
          /\ ~PyEq(self.temperature_factor, CurveRead[i].f)
          /\ ~PyEq(self.temperature_factor, CurveRead[i + 1].f)

\* the factor at exactly min_operating_temp, the curve's last sample
C11_WitnessAtMin ==
    /\ InRangeOnSpanningCurve
    /\ last.exc = ""
    /\ PyEq(self.operating_temp, self.min_operating_temp)
    /\ PyEq(self.temperature_factor, PyFloat(1, 2))

\* operating_temp passes the range check (and is below -10 in the
\* lithium-only variant) and no adjacent pair of the curve brackets it
InGap ==
    /\ ValidInputs
    /\ ~OutOfRange(self)
    /\ variant = "li" => PyLt(self.operating_temp, PyInt(-10))
    /\ Bracket(CurveRead, self.operating_temp) = {}

\* the update ends at line 323 (230) with None for the temperature factor,
\* having assigned neither effective_battery_capacity nor battery_runtime
NoFactorProduced ==
    /\ self'.temperature_factor = PyNone
    /\ last'.exc = "TypeError"
    /\ self'.effective_battery_capacity = self.effective_battery_capacity
    /\ self'.battery_runtime = self.battery_runtime

\* C12 as claimed: whenever operating_temp is in a gap of the curve,
\* calculate_temperature_factor returns no numeric factor and
\* update_battery_properties() produces no effective_battery_capacity and no
\* battery_runtime.
C12_GapGivesNoFactor ==
    [][(last'.op = "update_battery_properties" /\ InGap') => NoFactorProduced]_vars

\* C12: the same, except in the generalized variant at operating_temp =
\* max_operating_temp, which no pair brackets when the curve's first sample is
\* at or below it: there the first row's factor is returned and the update
\* computes a numeric capacity and runtime.
C12_GapBelowMaxGivesNoFactor ==
    [][(last'.op = "update_battery_properties" /\ InGap')
         => IF variant = "gen" /\ PyEq(self'.operating_temp, self'.max_operating_temp)
            THEN /\ self'.temperature_factor = CurveRead'[1].f
                 /\ last'.exc = ""
                 /\ IsNumeric(self'.effective_battery_capacity)
                 /\ IsNumeric(self'.battery_runtime)
            ELSE NoFactorProduced]_vars

\* an update in a gap below the maximum, after an update that computed a
\* runtime: the runtime stays, the factor is None
C12_Witness ==
    /\ Updated
    /\ InGap
    /\ ~PyEq(self.operating_temp, self.max_operating_temp)
    /\ last.exc = "TypeError"
    /\ self.temperature_factor = PyNone
    /\ IsNumeric(self.battery_runtime)

\* temperature factors of [0,1], as Python floats and as numpy values
UnitFactors ==
    {PyFloat(0, 1), PyFloat(1, 1000), PyFloat(1, 2), PyFloat(1, 1), PyNp(0, 1), PyNp(3, 4)}

\* self after line 323 with the given temperature factor
WithFactor(b, factor) ==
    [b EXCEPT !.temperature_factor = factor,
              !.effective_battery_capacity = PyMul(factor, b.battery_capacity)]

\* calculate_runtime returned r on b without dividing by zero: 0 before the
\* division when the effective capacity is 0, otherwise a positive
\* self-discharge term and a positive total daily consumption; and the runtime
\* is within 0 .. max_shelf_life * 365
RuntimeDefined(b, r) ==
    /\ r.exc = ""
    /\ IsNumeric(r.ret)
    /\ PyLe(PyInt(0), r.ret)
    /\ PyLe(r.ret, PyMul(b.max_shelf_life, PyInt(365)))
    /\ IF b.effective_battery_capacity.n = 0
       THEN r.ret = PyInt(0)
       ELSE /\ PyLt(PyInt(0), PyDiv(PyMul(b.self_discharge_rate,
                                          b.effective_battery_capacity), PyInt(365)))
            /\ PyLt(PyInt(0), total_daily_consumption(b))

\* the update went as far as calculate_runtime
ReachedRuntime ==
    /\ Updated
    /\ last.exc \notin {"AttributeError", "KeyError", "TypeError"}

\* C13: in the generalized variant, with valid inputs and a temperature factor
\* in [0,1], calculate_runtime never divides by zero: either the effective
\* capacity is 0 and 0 is returned before the division, or the total daily
\* consumption is positive because the self-discharge term is; and the
\* battery_runtime returned is within 0 .. max_shelf_life * 365.  Checked on
\* the runtime the update computed and on calculate_runtime applied to the
\* object with every factor of UnitFactors.
C13_RuntimeNeverDividesByZero ==
    (variant = "gen" /\ Updated /\ ValidInputs) =>
        /\ (ReachedRuntime /\ InUnit(self.temperature_factor))
              => /\ last.exc = ""
                 /\ RuntimeDefined(self, Returned(self, self.battery_runtime))
        /\ \A factor \in UnitFactors :
              RuntimeDefined(WithFactor(self, factor),
                             calculate_runtime_gen(WithFactor(self, factor)))

\* no load and no sleep current on a battery with capacity left: only the
\* self-discharge term keeps the divisor positive
C13_Witness ==
    /\ variant = "gen"
    /\ ReachedRuntime
    /\ ValidInputs
    /\ self.load_current = PyInt(0)
    /\ self.sleep_current = PyInt(0)
    /\ self.effective_battery_capacity.n > 0
    /\ PyEq(self.battery_runtime, PyMul(self.max_shelf_life, PyInt(365)))

\* no load, no sleep current and no capacity left: 0 returned before the
\* division 0 / 0
C13_WitnessZero ==
    /\ variant = "gen"
    /\ ReachedRuntime
    /\ ValidInputs
    /\ self.load_current = PyInt(0)
    /\ self.sleep_current = PyInt(0)
    /\ self.effective_battery_capacity.n = 0
    /\ self.battery_runtime = PyInt(0)

====
